---------------------------- MODULE Spec2Model ----------------------------
(***************************************************************************)
(* Model of streamlit_app.py: one Streamlit script that is re-executed     *)
(* from top to bottom on every user interaction (a "render pass").         *)
(*                                                                         *)
(* Text is modelled as a sequence of one-character strings, so that        *)
(* lower-casing, regex stripping, separator swapping and numeric parsing   *)
(* are computed character by character.  A missing cell (NaN / None) is    *)
(* NULL.  A number is a record [ok, v]: v counts units of 10^-FracDigits,  *)
(* ok = FALSE is NaN.  A timestamp is a record [ok, v]: v counts hours     *)
(* since day 0, ok = FALSE is NaT.                                         *)
(***************************************************************************)
EXTENDS Integers, Sequences, FiniteSets, TLC

\* ------------------------------------------------------------------ bounds
\* decimal places kept by the fixed-point representation of a float
FracDigits == 3
\* largest calendar day a date_input choice may name
MaxDay == 3
\* longest price text enumerated over PriceAlphabet
MaxStrLen == 3
\* seconds (in clock steps) after which the model stops advancing the clock
MaxClock == 600
\* seconds that pass in one Tick
TickStep == 200

\* ------------------------------------------------------- program constants
\* @st.cache_data(ttl=300)
CacheTtl == 300
\* default_sel = prods[:5]
DefaultSelMax == 5
\* pd.Timedelta(days=1), in hours
HoursPerDay == 24
\* st.slider("Top N", min_value=3, max_value=30, value=10)
TopNMin == 3
TopNMax == 30
TopNDefault == 10

\* ------------------------------------------------------------------- text
NULL == <<"<NA>">>
NINGUNA == <<"(ninguna)">>

\* Evaluation helpers.  "x \in {e}" inside Only({... : x \in {e}}) names the
\* value of e; Tuple(f) is the sequence f written out element by element.
Only(S) == CHOOSE x \in S : TRUE
Tuple(f) == f \o <<>>

DigitChars == <<"0", "1", "2", "3", "4", "5", "6", "7", "8", "9">>
UpperChars == <<"A", "B", "C", "D", "E", "F", "G", "H", "I", "J", "K", "L", "M",
                "N", "O", "P", "Q", "R", "S", "T", "U", "V", "W", "X", "Y", "Z">>
LowerChars == <<"a", "b", "c", "d", "e", "f", "g", "h", "i", "j", "k", "l", "m",
                "n", "o", "p", "q", "r", "s", "t", "u", "v", "w", "x", "y", "z">>

Range(s) == {s[i] : i \in 1..Len(s)}

Digits == Range(DigitChars)
Uppers == Range(UpperChars)
Lowers == Range(LowerChars)

IndexOf(s, x) == CHOOSE i \in 1..Len(s) : s[i] = x /\ \A j \in 1..(i - 1) : s[j] # x

IsDigit(ch) == ch \in Digits

DigitVal(ch) == IndexOf(DigitChars, ch) - 1

\* code point order of the characters the model uses
Ord(ch) ==
    IF ch = "," THEN 44
    ELSE IF ch = "-" THEN 45
    ELSE IF ch = "." THEN 46
    ELSE IF ch \in Digits THEN 48 + DigitVal(ch)
    ELSE IF ch \in Uppers THEN 64 + IndexOf(UpperChars, ch)
    ELSE IF ch \in Lowers THEN 96 + IndexOf(LowerChars, ch)
    ELSE 32

LowerChar(ch) == IF ch \in Uppers THEN LowerChars[IndexOf(UpperChars, ch)] ELSE ch

\* str.lower()
Lower(s) == Tuple([i \in 1..Len(s) |-> LowerChar(s[i])])

Min(a, b) == IF a < b THEN a ELSE b

\* s < t in Python's string order: equal up to some position k, where s
\* ends or has the smaller character
StrLess(s, t) ==
    \E k \in 0..Min(Len(s), Len(t)) :
        /\ \A i \in 1..k : s[i] = t[i]
        /\ \/ k = Len(s) /\ k < Len(t)
           \/ k < Len(s) /\ k < Len(t) /\ Ord(s[k + 1]) < Ord(t[k + 1])

\* sorted(S) for a set of strings: the k-th element has k-1 smaller ones
Sorted(S0) ==
    Only({Tuple([k \in 1..Cardinality(S) |->
                   CHOOSE x \in S : Cardinality({y \in S : StrLess(y, x)}) = k - 1])
          : S \in {S0}})

\* str(i) for a natural number
RECURSIVE Str(_)
Str(i) == IF i < 10 THEN <<DigitChars[i + 1]>> ELSE Str(i \div 10) \o <<DigitChars[(i % 10) + 1]>>

RECURSIVE Pow10(_)
Pow10(n) == IF n = 0 THEN 1 ELSE 10 * Pow10(n - 1)

Count(s, ch) == Cardinality({i \in 1..Len(s) : s[i] = ch})

\* the elements of s at the positions K, in order
Keep(s, K0) ==
    Only({Tuple([k \in 1..Cardinality(K) |->
                   s[CHOOSE i \in K : Cardinality({j \in K : j < i}) = k - 1]])
          : K \in {K0}})

Remove(s, ch) == Keep(s, {i \in 1..Len(s) : s[i] # ch})

Replace(s, ch, d) == Tuple([i \in 1..Len(s) |-> IF s[i] = ch THEN d ELSE s[i]])

\* ---------------------------------------------------------------- numbers
NaN == [ok |-> FALSE, v |-> 0]
Num(x) == [ok |-> TRUE, v |-> x]
NaT == [ok |-> FALSE, v |-> 0]
Ts(x) == [ok |-> TRUE, v |-> x]

\* Series.astype(str) of one cell: a missing value prints as "nan"
AsStr(cell) == IF cell = NULL THEN <<"n", "a", "n">> ELSE cell

\* str.replace(r"[^\d,.\-]", "", regex=True) of one cell
StripNonNumeric(s) == Keep(s, {i \in 1..Len(s) : IsDigit(s[i]) \/ s[i] \in {",", ".", "-"}})

\* the number a string of digits writes
DigitsVal(s) ==
    LET f[i \in 0..Len(s)] == IF i = 0 THEN 0 ELSE 10 * f[i - 1] + DigitVal(s[i])
    IN f[Len(s)]

\* the unsigned part of a float literal: digits with at most one "."
UnsignedVal(s) ==
    LET dot == IF "." \in Range(s) THEN IndexOf(s, ".") ELSE Len(s) + 1
        ip == SubSeq(s, 1, dot - 1)
        fp == SubSeq(s, dot + 1, Len(s))
        fk == SubSeq(fp, 1, Min(Len(fp), FracDigits))
    IN DigitsVal(ip) * Pow10(FracDigits) + DigitsVal(fk) * Pow10(FracDigits - Len(fk))

IsUnsignedFloat(s) ==
    /\ \A i \in 1..Len(s) : IsDigit(s[i]) \/ s[i] = "."
    /\ Count(s, ".") <= 1
    /\ \E i \in 1..Len(s) : IsDigit(s[i])

\* pd.to_numeric(x, errors="coerce") of one string
ToNumeric(s) ==
    LET neg == s # <<>> /\ s[1] = "-"
        body == IF neg THEN Tail(s) ELSE s
    IN IF IsUnsignedFloat(body)
       THEN Num(IF neg THEN 0 - UnsignedVal(body) ELSE UnsignedVal(body))
       ELSE NaN

\* (s.str.count(",") > 0).sum() > (s.str.count(r"\.") > 0).sum()
CommaIsDecimal(col) ==
    Cardinality({i \in 1..Len(col) : Count(col[i], ",") > 0})
        > Cardinality({i \in 1..Len(col) : Count(col[i], ".") > 0})

\* s.str.replace(".", "").str.replace(",", ".")
SwapSeparators(s) == Replace(Remove(s, "."), ",", ".")

\* the stripped strings of a column
Stripped(series) == Tuple([i \in 1..Len(series) |-> StripNonNumeric(AsStr(series[i]))])

coerce_numeric(series) ==
    Only({Tuple([i \in 1..Len(s) |->
                   ToNumeric(IF swap THEN SwapSeparators(s[i]) ELSE s[i])])
          : s \in {Stripped(series)}, swap \in {CommaIsDecimal(Stripped(series))}})

\* ------------------------------------------------------------------ dates
\* The date text pd.to_datetime accepts is abstracted to "<day>" and
\* "<day>T<hour>", one digit each; any other text makes it raise.
IsDateText(s) ==
    \/ Len(s) = 1 /\ IsDigit(s[1])
    \/ Len(s) = 3 /\ IsDigit(s[1]) /\ s[2] = "T" /\ IsDigit(s[3])

DateVal(s) == HoursPerDay * DigitVal(s[1]) + (IF Len(s) = 3 THEN DigitVal(s[3]) ELSE 0)

\* pd.to_datetime(series): [raised, values]
to_datetime(series) ==
    IF \E i \in 1..Len(series) : series[i] # NULL /\ ~IsDateText(series[i])
    THEN [raised |-> TRUE, values |-> series]
    ELSE [raised |-> FALSE,
          values |-> Tuple([i \in 1..Len(series) |->
                              IF series[i] = NULL THEN NaT ELSE Ts(DateVal(series[i]))])]

\* normalize_datetime: [parsed, values]; on an exception the series comes
\* back as it was (text)
normalize_datetime(series) ==
    Only({IF r.raised THEN [parsed |-> FALSE, values |-> series]
          ELSE [parsed |-> TRUE, values |-> r.values]
          : r \in {to_datetime(series)}})

\* Timestamp.date(), as a day number
DateOf(t) == t \div HoursPerDay

\* ------------------------------------------------------------ data frames
\* A raw frame: column names and rows of cells aligned with them.  none is
\* TRUE for the None that load_from_mysql returns without a connection.
Frame(cols, rows) == [none |-> FALSE, cols |-> cols, rows |-> rows]
NoneFrame == [none |-> TRUE, cols |-> <<>>, rows |-> <<>>]

\* df[c]
Column(frame, name) ==
    Only({Tuple([i \in 1..Len(frame.rows) |-> frame.rows[i][k]]) : k \in {IndexOf(frame.cols, name)}})

\* --------------------------------------------------------- column mapping
N_id == <<"i", "d">>
N_nombre == <<"n", "o", "m", "b", "r", "e">>
N_cliente == <<"c", "l", "i", "e", "n", "t", "e">>
N_user == <<"u", "s", "e", "r">>
N_buyer == <<"b", "u", "y", "e", "r">>
N_producto == <<"p", "r", "o", "d", "u", "c", "t", "o">>
N_item == <<"i", "t", "e", "m">>
N_product == <<"p", "r", "o", "d", "u", "c", "t">>
N_categoria == <<"c", "a", "t", "e", "g", "o", "r", "i", "a">>
N_precio == <<"p", "r", "e", "c", "i", "o">>
N_amount == <<"a", "m", "o", "u", "n", "t">>
N_price == <<"p", "r", "i", "c", "e">>
N_total == <<"t", "o", "t", "a", "l">>
N_fecha == <<"f", "e", "c", "h", "a">>
N_date == <<"d", "a", "t", "e">>
N_timestamp == <<"t", "i", "m", "e", "s", "t", "a", "m", "p">>
N_datetime == <<"d", "a", "t", "e", "t", "i", "m", "e">>

Fields == {"id", "nombre", "producto", "precio", "fecha"}

\* the default_candidates of the five pick(...) calls
Candidates ==
    [id |-> <<N_id>>,
     nombre |-> <<N_nombre, N_cliente, N_user, N_buyer>>,
     producto |-> <<N_producto, N_item, N_product, N_categoria>>,
     precio |-> <<N_precio, N_amount, N_price, N_total>>,
     fecha |-> <<N_fecha, N_date, N_timestamp, N_datetime>>]

\* lower = {c.lower(): c for c in cols}; lower[k]: a later column replaces
\* an earlier one with the same lower-cased name
LowerMap(cols, k) ==
    LET hits == {i \in 1..Len(cols) : Lower(cols[i]) = k}
    IN cols[CHOOSE i \in hits : \A j \in hits : j <= i]

InLowerMap(cols, k) == \E i \in 1..Len(cols) : Lower(cols[i]) = k

\* a scan that lets the last matching candidate win, to compare with Found
FoundLastCandidate(cols, cands) ==
    LET hits == {k \in 1..Len(cands) : InLowerMap(cols, cands[k])}
    IN IF hits = {} THEN NINGUNA
       ELSE LowerMap(cols, cands[CHOOSE k \in hits : \A j \in hits : j <= k])

\* the loop of pick: found, or NINGUNA for None
Found(cols, cands) ==
    LET hits == {k \in 1..Len(cands) : InLowerMap(cols, cands[k])}
    IN IF hits = {} THEN NINGUNA
       ELSE LowerMap(cols, cands[CHOOSE k \in hits : \A j \in hits : k <= j])

\* the options of the selectbox: ["(ninguna)"] + cols
PickOptions(cols) == <<NINGUNA>> \o cols

\* index=(cols.index(found)+1) if found else 0, as a position of PickOptions
PickIndex(cols, cands) ==
    LET found == Found(cols, cands)
    IN IF found = NINGUNA THEN 1 ELSE IndexOf(cols, found) + 1

\* A widget keeps its value while the parameters it is built from (id) stay
\* the same; built from other parameters it is a new widget and shows its
\* default.  A widget the last pass did not show has no state.
NoWidget == [id |-> <<>>, val |-> <<>>]

WidgetValue(w, id, default) == IF w.id = id THEN w.val ELSE default

Rendered(w, id, default) == [id |-> id, val |-> WidgetValue(w, id, default)]

\* pick(label, default_candidates): what st.sidebar.selectbox returns
pick(cols, cands, w) ==
    Rendered(w, <<PickOptions(cols), PickIndex(cols, cands)>>,
             PickOptions(cols)[PickIndex(cols, cands)])

\* the else branch: the database's column names
MySqlMapping ==
    [id |-> N_id, nombre |-> N_nombre, producto |-> N_producto,
     precio |-> N_precio, fecha |-> N_fecha]

MySqlCols == <<N_id, N_nombre, N_producto, N_precio, N_fecha>>

\* a check that looks at the product only, to compare with MissingRequired
MissingRequiredIgnoresPrice(c) == c.producto = NINGUNA

\* (c_prod == "(ninguna)") or (c_precio == "(ninguna)")
MissingRequired(c) == c.producto = NINGUNA \/ c.precio = NINGUNA

\* ------------------------------------------------------- canonical records
EmptyNdf == [fecha_parsed |-> TRUE, rows |-> <<>>]

\* ndf["id"]
IdColumn(frame, m) ==
    IF m.id # NINGUNA THEN Column(frame, m.id)
    ELSE Tuple([i \in 1..Len(frame.rows) |-> Str(i)])

\* ndf: the five columns, row by row; idx is the row's index label
build_ndf(frame, m) ==
    Only({[fecha_parsed |-> fechas.parsed,
           rows |-> Tuple([i \in 1..Len(frame.rows) |->
                             [idx |-> i - 1, id |-> ids[i], nombre |-> nombres[i],
                              producto |-> productos[i], precio |-> precios[i],
                              fecha |-> fechas.values[i]]])]
          : ids \in {IdColumn(frame, m)},
            nombres \in {IF m.nombre # NINGUNA THEN Column(frame, m.nombre)
                         ELSE Tuple([i \in 1..Len(frame.rows) |-> NULL])},
            productos \in {Column(frame, m.producto)},
            precios \in {coerce_numeric(Column(frame, m.precio))},
            fechas \in {IF m.fecha # NINGUNA THEN normalize_datetime(Column(frame, m.fecha))
                        ELSE [parsed |-> TRUE,
                              values |-> Tuple([i \in 1..Len(frame.rows) |-> NaT])]}})

\* ---------------------------------------------------------------- filters
\* the rows whose flag is set
Mask(rows, flags) == Keep(rows, {i \in 1..Len(rows) : flags[i]})

\* sorted(ndf["producto"].dropna().astype(str).unique().tolist())
Prods(rows) == Sorted({AsStr(rows[i].producto) : i \in {j \in 1..Len(rows) : rows[j].producto # NULL}})

\* prods[:5] if prods else []
DefaultSel(prods) == SubSeq(prods, 1, Min(DefaultSelMax, Len(prods)))

\* df_f[df_f["producto"].astype(str).isin([str(x) for x in prod_sel])]
ProductFilter(rows, sel) ==
    IF sel = {} THEN rows
    ELSE Mask(rows, [i \in 1..Len(rows) |-> AsStr(rows[i].producto) \in sel])

\* df_f["fecha"].notna().any()
FechaNotNa(parsed, r) == IF parsed THEN r.fecha.ok ELSE r.fecha # NULL

AnyFecha(parsed, rows) == \E i \in 1..Len(rows) : FechaNotNa(parsed, rows[i])

\* pd.to_datetime(df_f["fecha"]): a datetime column is returned as it is
Timestamps(parsed, rows) ==
    IF parsed THEN [raised |-> FALSE, values |-> Tuple([i \in 1..Len(rows) |-> rows[i].fecha])]
    ELSE to_datetime(Tuple([i \in 1..Len(rows) |-> rows[i].fecha]))

MinTs(ts) ==
    Only({CHOOSE x \in S : \A y \in S : x <= y
          : S \in {{ts[i].v : i \in {j \in 1..Len(ts) : ts[j].ok}}}})

MaxTs(ts) ==
    Only({CHOOSE x \in S : \A y \in S : y <= x
          : S \in {{ts[i].v : i \in {j \in 1..Len(ts) : ts[j].ok}}}})

\* pd.to_datetime(date): midnight of that day
Midnight(day) == HoursPerDay * day

\* (df_f["fecha"] >= d0) & (df_f["fecha"] <= d1 + pd.Timedelta(days=1))
DateFilter(rows, d0, d1) ==
    Mask(rows, [i \in 1..Len(rows) |->
                  /\ rows[i].fecha.ok
                  /\ rows[i].fecha.v >= Midnight(d0)
                  /\ rows[i].fecha.v <= Midnight(d1) + HoursPerDay])

\* lines 164-168 once the column has parsed as t with minimum lo, maximum hi
DateWidgetStage(parsed, rows, w, lo, hi) ==
    IF lo = hi
    THEN [raised |-> FALSE, widget |-> NoWidget, range |-> <<>>, rows |-> rows]
    ELSE Only({IF Len(wd.val) # 2
               THEN [raised |-> FALSE, widget |-> wd, range |-> <<>>, rows |-> rows]
               ELSE IF ~parsed
               THEN [raised |-> TRUE, widget |-> wd, range |-> wd.val, rows |-> rows]
               ELSE [raised |-> FALSE, widget |-> wd, range |-> wd.val,
                     rows |-> DateFilter(rows, wd.val[1], wd.val[2])]
               : wd \in {Rendered(w, <<DateOf(lo), DateOf(hi)>>, <<DateOf(lo), DateOf(hi)>>)}})

\* The date block (lines 161-168) on the product-filtered rows:
\* [raised, widget, range, rows].  range is <<>> when no 2-tuple is applied.
\* Comparing a text column with a Timestamp raises.
DateStage(parsed, rows, w) ==
    IF ~AnyFecha(parsed, rows)
    THEN [raised |-> FALSE, widget |-> NoWidget, range |-> <<>>, rows |-> rows]
    ELSE Only({IF t.raised
               THEN [raised |-> TRUE, widget |-> NoWidget, range |-> <<>>, rows |-> rows]
               ELSE DateWidgetStage(parsed, rows, w, MinTs(t.values), MaxTs(t.values))
               : t \in {Timestamps(parsed, rows)}})

\* ------------------------------------------------------------- aggregation
SumPrecio(rows) ==
    LET f[i \in 0..Len(rows)] ==
            IF i = 0 THEN 0
            ELSE f[i - 1] + (IF rows[i].precio.ok THEN rows[i].precio.v ELSE 0)
    IN f[Len(rows)]

CountPrecio(rows) == Cardinality({i \in 1..Len(rows) : rows[i].precio.ok})

\* ("id", "count"): the non-missing ids
CountId(rows) == Cardinality({i \in 1..Len(rows) : rows[i].id # NULL})

\* a metric value: the fraction num/den, or missing
Val(n, d) == [ok |-> TRUE, num |-> n, den |-> d]
NoVal == [ok |-> FALSE, num |-> 0, den |-> 1]

MeanPrecio(rows) ==
    IF CountPrecio(rows) = 0 THEN NoVal ELSE Val(SumPrecio(rows), CountPrecio(rows))

MaxPrecio(rows) ==
    Only({IF S = {} THEN NoVal ELSE Val(CHOOSE x \in S : \A y \in S : y <= x, 1)
          : S \in {{rows[i].precio.v : i \in {j \in 1..Len(rows) : rows[j].precio.ok}}}})

\* the four KPIs
Kpi(rows) ==
    [registros |-> Len(rows), total |-> SumPrecio(rows),
     promedio |-> MeanPrecio(rows), maximo |-> MaxPrecio(rows)]

Suma == "Suma (precio)"
Promedio == "Promedio (precio)"
Conteo == "Conteo (registros)"
Metrics == {Suma, Promedio, Conteo}

\* groupby("producto", dropna=False): the keys in sorted order, missing last
GroupKeys(rows) ==
    Sorted({rows[i].producto : i \in {j \in 1..Len(rows) : rows[j].producto # NULL}})
        \o (IF \E i \in 1..Len(rows) : rows[i].producto = NULL THEN <<NULL>> ELSE <<>>)

Group(rows, k) == Mask(rows, [i \in 1..Len(rows) |-> rows[i].producto = k])

\* one row of .agg(valor=..., n=("id", "count")) under the chosen metric
AggRow(key, grp, metric) ==
    [producto |-> key,
     valor |-> IF metric = Suma THEN Val(SumPrecio(grp), 1)
               ELSE IF metric = Promedio THEN MeanPrecio(grp)
               ELSE Val(CountId(grp), 1),
     n |-> CountId(grp)]

AggByProduct(rows, metric) ==
    Only({Tuple([g \in 1..Len(keys) |->
                   Only({AggRow(keys[g], grp, metric) : grp \in {Group(rows, keys[g])}})])
          : keys \in {GroupKeys(rows)}})

\* a sorts before b in sort_values("valor", ascending=False): missing last
Before(a, b) == a.ok /\ (~b.ok \/ a.num * b.den > b.num * a.den)

\* agg.sort_values("valor", ascending=False), ties in group order: the
\* k-th row has k-1 rows that sort before it or tie with it from earlier
SortValor(a) ==
    Tuple([k \in 1..Len(a) |->
             a[CHOOSE i \in 1..Len(a) :
                 Cardinality({j \in 1..Len(a) :
                                \/ Before(a[j].valor, a[i].valor)
                                \/ ~Before(a[i].valor, a[j].valor) /\ j < i}) = k - 1]])

\* agg.head(top_n)
HeadRows(a, n) == SubSeq(a, 1, Min(n, Len(a)))

\* the elements of a set of integers, ascending
SortedInts(S0) ==
    Only({Tuple([k \in 1..Cardinality(S) |->
                   CHOOSE x \in S : Cardinality({y \in S : y < x}) = k - 1])
          : S \in {S0}})

\* one row of df_t.groupby("__day__").agg(...)
DayRow(day, grp) ==
    [day |-> day, precio_promedio |-> MeanPrecio(grp),
     ventas |-> CountId(grp), facturado |-> SumPrecio(grp)]

\* df_t.groupby("__day__").agg(...): missing days dropped, days ascending
ByDay(rows, ts) ==
    Only({Tuple([g \in 1..Len(days) |->
                   Only({DayRow(days[g], grp)
                         : grp \in {Mask(rows, [i \in 1..Len(rows) |->
                                                  ts[i].ok /\ DateOf(ts[i].v) = days[g]])}})])
          : days \in {SortedInts({DateOf(ts[i].v) : i \in {j \in 1..Len(ts) : ts[j].ok}})}})

\* the time-series block (lines 200-215): [raised, shown, rows]
RollupStage(parsed, rows) ==
    IF ~AnyFecha(parsed, rows) THEN [raised |-> FALSE, shown |-> FALSE, rows |-> <<>>]
    ELSE Only({IF t.raised THEN [raised |-> TRUE, shown |-> FALSE, rows |-> <<>>]
               ELSE [raised |-> FALSE, shown |-> TRUE, rows |-> ByDay(rows, t.values)]
               : t \in {Timestamps(parsed, rows)}})

\* ----------------------------------------------------------------- state
VARIABLES
    source,         \* the radio: "MySQL (Azure)" or "CSV (subido)"
    uploaded_file,  \* the file_uploader: NoneFrame or the parsed file
    w_pick,         \* the five mapping selectboxes
    metric_choice,  \* the metric selectbox
    w_prod,         \* the product multiselect
    w_date,         \* the date_input
    top_n,          \* the slider
    cache,          \* st.cache_data entry of load_from_mysql
    clock,          \* seconds since the session began
    db,             \* what SELECT ... FROM productos returns now
    secrets,        \* whether st.secrets["mysql"] is complete
    status,         \* how the last pass ended
    df,             \* the rest: the values the last pass computed
    c,
    ndf,
    prod_sel,
    date_range,
    df_f,
    kpi,
    agg,
    agg_top,
    by_day,
    stages,         \* the stages the last pass ran
    fresh,          \* the last pass executed the body of load_from_mysql
    dropped,        \* the entry the last Actualizar removed, until a pass has run
    refreshed       \* "pending": Actualizar dropped a live entry, no pass since;
                    \* "served": the last pass is the first one after that

vars == <<source, uploaded_file, w_pick, metric_choice, w_prod, w_date, top_n,
          cache, clock, db, secrets, status, df, c, ndf, prod_sel, date_range,
          df_f, kpi, agg, agg_top, by_day, stages, fresh, dropped, refreshed>>

MySQL == "MySQL (Azure)"
CSV == "CSV (subido)"

EmptyCache == [has |-> FALSE, at |-> 0, val |-> NoneFrame]

NoMapping == [f \in Fields |-> NINGUNA]
NoPicks == [f \in Fields |-> NoWidget]

\* ------------------------------------------------------------- ingestion
\* the entry is served while it is younger than ttl
CacheLive(entry, now) == entry.has /\ now < entry.at + CacheTtl

\* the body of load_from_mysql
LoadBody(table, configured) == IF configured THEN table ELSE NoneFrame

\* load_from_mysql() through @st.cache_data(ttl=300)
load_from_mysql(entry, now, table, configured) ==
    IF CacheLive(entry, now)
    THEN [val |-> entry.val, cache |-> entry, fresh |-> FALSE]
    ELSE [val |-> LoadBody(table, configured),
          cache |-> [has |-> TRUE, at |-> now, val |-> LoadBody(table, configured)],
          fresh |-> TRUE]

\* a clear that removes nothing, to compare with Clear
ClearKeepsEntry(entry) == entry

\* load_from_mysql.clear()
Clear(entry) == EmptyCache

\* ------------------------------------------------------------ render pass
Blank ==
    [status |-> "rerun", df |-> NoneFrame, c |-> NoMapping, w_pick |-> NoPicks,
     metric |-> Suma, ndf |-> EmptyNdf, prod_sel |-> {}, w_prod |-> NoWidget,
     date_range |-> <<>>, w_date |-> NoWidget, df_f |-> <<>>, kpi |-> Kpi(<<>>),
     agg |-> <<>>, agg_top |-> <<>>, top_n |-> TopNDefault, by_day |-> <<>>,
     stages |-> {}]

\* lines 105-125: the mapping and the selectboxes that were shown
MappingWidgets(src, frame, wp) ==
    IF src = CSV
    THEN [f \in Fields |-> pick(frame.cols, Candidates[f], wp[f])]
    ELSE NoPicks

Mapping(src, mw) ==
    IF src = CSV THEN [f \in Fields |-> mw[f].val] ELSE MySqlMapping

\* lines 170-242 on the filtered rows
Outputs(o, parsed, rows, metric, topn) ==
    Only({IF rs.raised
          THEN [o EXCEPT !.status = "exception", !.df_f = rows, !.kpi = Kpi(rows), !.agg = a,
                         !.agg_top = HeadRows(a, topn), !.top_n = topn,
                         !.stages = @ \cup {"kpi", "aggregate"}]
          ELSE [o EXCEPT !.status = "done", !.df_f = rows, !.kpi = Kpi(rows), !.agg = a,
                         !.agg_top = HeadRows(a, topn), !.top_n = topn, !.by_day = rs.rows,
                         !.stages = @ \cup {"kpi", "aggregate", "export"}
                                      \cup (IF rs.shown THEN {"rollup"} ELSE {})]
          : a \in {SortValor(AggByProduct(rows, metric))},
            rs \in {RollupStage(parsed, rows)}})

\* lines 157-242 once the product selection is known
Filtered(o, sel, metric, wdate, topn) ==
    Only({IF ds.raised
          THEN [o EXCEPT !.status = "exception", !.w_date = ds.widget, !.date_range = ds.range]
          ELSE Outputs([o EXCEPT !.w_date = ds.widget, !.date_range = ds.range],
                       o.ndf.fecha_parsed, ds.rows, metric, topn)
          : ds \in {DateStage(o.ndf.fecha_parsed, ProductFilter(o.ndf.rows, sel), wdate)}})

\* lines 147-242 on the canonical records
Downstream(o, metric, wprod, wdate, topn) ==
    Only({Only({Filtered([o EXCEPT !.metric = metric, !.prod_sel = wp.val, !.w_prod = wp,
                                   !.stages = @ \cup {"filter"}],
                         wp.val, metric, wdate, topn)
                : wp \in {Rendered(wprod, <<prods, DefaultSel(prods)>>, Range(DefaultSel(prods)))}})
          : prods \in {Prods(o.ndf.rows)}})

\* df[c_x] raises KeyError for a name that is no column
HasColumns(frame, m) ==
    \A f \in Fields : (f \in {"producto", "precio"} \/ m[f] # NINGUNA) => m[f] \in Range(frame.cols)

\* lines 127-242 once the mapping is known
Mapped(o, frame, m, metric, wprod, wdate, topn) ==
    IF MissingRequired(m) THEN [o EXCEPT !.status = "missing_mapping"]
    ELSE IF ~HasColumns(frame, m) THEN [o EXCEPT !.status = "exception"]
    ELSE Only({Downstream([o EXCEPT !.ndf = n, !.stages = @ \cup {"canonical"}],
                          metric, wprod, wdate, topn)
               : n \in {build_ndf(frame, m)}})

\* lines 105-242 on a loaded frame
AfterLoad(src, frame, wp, metric, wprod, wdate, topn) ==
    Only({Mapped([Blank EXCEPT !.df = frame, !.c = Mapping(src, mw), !.w_pick = mw,
                               !.stages = {"load", "mapping"}],
                 frame, Mapping(src, mw), metric, wprod, wdate, topn)
          : mw \in {MappingWidgets(src, frame, wp)}})

\* lines 90-242 on what was loaded
Outcome(src, frame, wp, metric, wprod, wdate, topn) ==
    IF frame.none
    THEN [Blank EXCEPT !.status = IF src = MySQL THEN "stopped_config" ELSE "stopped_nofile"]
    ELSE AfterLoad(src, frame, wp, metric, wprod, wdate, topn)

\* One run of the script without a click on Actualizar.
Pass(src, file, wp, metric, wprod, wdate, topn) ==
    \E ld \in {load_from_mysql(cache, clock, db, secrets)} :
    \E o \in {Outcome(src, IF src = MySQL THEN ld.val ELSE file, wp, metric, wprod, wdate, topn)} :
       /\ source' = src
       /\ uploaded_file' = (IF src = CSV THEN file ELSE NoneFrame)
       /\ cache' = (IF src = MySQL THEN ld.cache ELSE cache)
       /\ fresh' = (src = MySQL /\ ld.fresh)
       /\ refreshed' = (IF refreshed = "pending" THEN "served" ELSE "none")
       /\ dropped' = (IF refreshed = "pending" THEN dropped ELSE EmptyCache)
       /\ status' = o.status
       /\ df' = o.df
       /\ c' = o.c
       /\ w_pick' = o.w_pick
       /\ metric_choice' = o.metric
       /\ ndf' = o.ndf
       /\ prod_sel' = o.prod_sel
       /\ w_prod' = o.w_prod
       /\ date_range' = o.date_range
       /\ w_date' = o.w_date
       /\ df_f' = o.df_f
       /\ kpi' = o.kpi
       /\ agg' = o.agg
       /\ agg_top' = o.agg_top
       /\ top_n' = o.top_n
       /\ by_day' = o.by_day
       /\ stages' = o.stages
       /\ UNCHANGED <<clock, db, secrets>>

\* ----------------------------------------------------------- interactions
\* Every interaction changes one widget and runs the script again.

\* the script runs again with the widgets as they are
Rerun == Pass(source, uploaded_file, w_pick, metric_choice, w_prod, w_date, top_n)

SelectSource(src) ==
    /\ src # source
    /\ Pass(src, NoneFrame, w_pick, metric_choice, w_prod, w_date, top_n)

Upload(file) ==
    /\ source = CSV
    /\ file # uploaded_file
    /\ Pass(source, file, w_pick, metric_choice, w_prod, w_date, top_n)

\* a choice in one of the mapping selectboxes
SetPick(f, v) ==
    /\ w_pick[f].id # <<>>
    /\ v \in Range(w_pick[f].id[1])
    /\ w_pick[f].val # v
    /\ Pass(source, uploaded_file, [w_pick EXCEPT ![f] = [id |-> @.id, val |-> v]],
            metric_choice, w_prod, w_date, top_n)

SetMetric(m) ==
    /\ "canonical" \in stages
    /\ m # metric_choice
    /\ Pass(source, uploaded_file, w_pick, m, w_prod, w_date, top_n)

\* a choice in the product multiselect: any subset of prods
SetProdSel(S) ==
    /\ w_prod.id # <<>>
    /\ S \subseteq Range(w_prod.id[1])
    /\ w_prod.val # S
    /\ Pass(source, uploaded_file, w_pick, metric_choice,
            [id |-> w_prod.id, val |-> S], w_date, top_n)

\* a choice in the date_input: a start alone, or a start and an end
DateChoices ==
    {<<a>> : a \in 0..MaxDay} \cup {<<a, b>> : a \in 0..MaxDay, b \in 0..MaxDay}

SetDateRange(r) ==
    /\ w_date.id # <<>>
    /\ Len(r) = 2 => r[1] <= r[2]
    /\ w_date.val # r
    /\ Pass(source, uploaded_file, w_pick, metric_choice, w_prod,
            [id |-> w_date.id, val |-> r], top_n)

SetTopN(n) ==
    /\ "aggregate" \in stages
    /\ n # top_n
    /\ Pass(source, uploaded_file, w_pick, metric_choice, w_prod, w_date, n)

\* st.button("Actualizar"): clear the cache and st.experimental_rerun(),
\* which ends this run at line 88
ClickRefresh ==
    /\ cache' = Clear(cache)
    /\ dropped' = cache
    /\ refreshed' = "pending"
    /\ status' = "rerun"
    /\ fresh' = FALSE
    /\ df' = Blank.df
    /\ c' = Blank.c
    /\ ndf' = Blank.ndf
    /\ prod_sel' = Blank.prod_sel
    /\ date_range' = Blank.date_range
    /\ df_f' = Blank.df_f
    /\ kpi' = Blank.kpi
    /\ agg' = Blank.agg
    /\ agg_top' = Blank.agg_top
    /\ by_day' = Blank.by_day
    /\ stages' = Blank.stages
    /\ UNCHANGED <<source, uploaded_file, w_pick, metric_choice, w_prod, w_date, top_n,
                   clock, db, secrets>>

pass_vars == <<source, uploaded_file, w_pick, metric_choice, w_prod, w_date, top_n,
               cache, status, df, c, ndf, prod_sel, date_range, df_f, kpi, agg,
               agg_top, by_day, stages, fresh, dropped, refreshed>>

\* time passes between interactions
Tick ==
    /\ clock + TickStep <= MaxClock
    /\ clock' = clock + TickStep
    /\ UNCHANGED <<db, secrets>>
    /\ UNCHANGED pass_vars

\* another client writes the productos table
DbWrite(table) ==
    /\ table # db
    /\ db' = table
    /\ UNCHANGED <<clock, secrets>>
    /\ UNCHANGED pass_vars

\* ------------------------------------------------------------ input pools
T(x) == <<x>>

\* the productos table, as the query returns it
NoTable == Frame(MySqlCols, <<>>)

DbTables ==
    {Frame(MySqlCols, <<<<T("1"), T("n"), T("a"), <<"5", ".", "5">>, <<"1", "T", "9">>>>>>),
     Frame(MySqlCols, <<<<T("1"), T("n"), T("a"), <<"5", ".", "5">>, <<"1", "T", "9">>>>,
                        <<T("2"), NULL, T("b"), T("7"), T("2")>>>>)}

\* uploads for the session specification
SessionFiles ==
    {Frame(<<N_producto, N_precio>>, <<<<T("a"), T("5")>>>>),
     Frame(<<N_item, T("x")>>, <<<<T("a"), T("5")>>>>)}

\* uploads whose column names vary: one or two distinct names
NamePool ==
    {<<"P", "r", "o", "d", "u", "c", "t", "o">>, N_producto, N_item,
     <<"P", "R", "E", "C", "I", "O">>, T("x")}

MapFiles ==
    {Frame(<<a>>, <<<<T("1")>>>>) : a \in NamePool}
        \cup {Frame(<<f[1], f[2]>>, <<<<T("1"), T("2")>>>>) :
                f \in {g \in NamePool \X NamePool : g[1] # g[2]}}

\* uploads whose cells vary, two rows under the default column names
DataCols == <<N_id, N_producto, N_precio, N_fecha>>
IdCells == {T("1"), T("2"), NULL}
ProdCells == {T("a"), T("b"), NULL}
PrecioCells == {T("5"), T("7"), T("x")}
FechaCells == {T("1"), <<"1", "T", "9">>, T("2"), NULL, T("x")}

DataFile(ids, prods, precios, fechas) ==
    Frame(DataCols, <<<<ids[1], prods[1], precios[1], fechas[1]>>,
                      <<ids[2], prods[2], precios[2], fechas[2]>>>>)

\* one column varies at a time
DataFiles ==
    {DataFile(i, <<T("a"), T("a")>>, <<T("5"), T("7")>>, <<T("1"), T("2")>>) :
        i \in IdCells \X IdCells}
    \cup {DataFile(<<T("1"), T("2")>>, p, <<T("5"), T("7")>>, <<T("1"), T("1")>>) :
            p \in ProdCells \X ProdCells}
    \cup {DataFile(<<T("1"), T("2")>>, <<T("a"), T("b")>>, x, <<T("1"), T("1")>>) :
            x \in PrecioCells \X PrecioCells}
    \cup {DataFile(<<T("1"), T("2")>>, <<T("a"), T("b")>>, <<T("5"), T("7")>>, d) :
            d \in FechaCells \X FechaCells}

\* uploads whose price texts vary: every text of up to MaxStrLen characters
\* over PriceAlphabet, and some longer ones
PriceAlphabet == {"1", ",", "."}

PriceTexts ==
    UNION {[1..n -> PriceAlphabet] : n \in 0..MaxStrLen}
        \cup {NULL, T("x"), <<"$", "1">>, <<"-", "1">>, <<"-", "1", ",", "1">>,
              <<"1", "-">>, <<"1", ".", "2", "3", "4", ",", "5", "6">>}

PriceFiles ==
    {Frame(<<N_producto, N_precio>>, <<<<T("a"), x[1]>>, <<T("a"), x[2]>>>>) :
        x \in PriceTexts \X PriceTexts}

\* ---------------------------------------------------------- specifications
\* a session before its first pass: the widgets at their defaults
SessionStart ==
    /\ w_pick = NoPicks
    /\ metric_choice = Suma
    /\ w_prod = NoWidget
    /\ w_date = NoWidget
    /\ top_n = TopNDefault
    /\ cache = EmptyCache
    /\ clock = 0
    /\ status = "init"
    /\ df = Blank.df
    /\ c = Blank.c
    /\ ndf = Blank.ndf
    /\ prod_sel = Blank.prod_sel
    /\ date_range = Blank.date_range
    /\ df_f = Blank.df_f
    /\ kpi = Blank.kpi
    /\ agg = Blank.agg
    /\ agg_top = Blank.agg_top
    /\ by_day = Blank.by_day
    /\ stages = Blank.stages
    /\ fresh = FALSE
    /\ dropped = EmptyCache
    /\ refreshed = "none"

\* a file has just been chosen in the uploader
Uploaded(files) ==
    /\ SessionStart
    /\ source = CSV
    /\ uploaded_file \in files
    /\ db = NoTable
    /\ secrets = TRUE

\* the session: both sources, the cache, the clock and the database
Init ==
    /\ SessionStart
    /\ source = MySQL
    /\ uploaded_file = NoneFrame
    /\ db \in DbTables
    /\ secrets \in BOOLEAN

Next ==
    \/ Rerun
    \/ ClickRefresh
    \/ Tick
    \/ \E t \in DbTables : DbWrite(t)
    \/ \E s \in {MySQL, CSV} : SelectSource(s)
    \/ \E f \in SessionFiles : Upload(f)

Spec == Init /\ [][Next]_vars

\* the column mapping, over uploads whose column names vary
InitMap == Uploaded(MapFiles)

NextMap ==
    \/ Rerun
    \/ \E f \in Fields : \E v \in NamePool \cup {NINGUNA} : SetPick(f, v)

SpecMap == InitMap /\ [][NextMap]_vars

\* the filters and aggregates, over uploads whose cells vary
InitData == Uploaded(DataFiles)

NextData ==
    \/ Rerun
    \/ \E m \in Metrics : SetMetric(m)
    \/ \E S \in SUBSET ProdCells : SetProdSel(S)
    \/ \E r \in DateChoices : SetDateRange(r)
    \/ \E n \in {TopNMin, TopNDefault} : SetTopN(n)

SpecData == InitData /\ [][NextData]_vars

\* numeric coercion, over uploads whose price texts vary
InitCoerce == Uploaded(PriceFiles)

NextCoerce == Rerun

SpecCoerce == InitCoerce /\ [][NextCoerce]_vars

\* ------------------------------------------------------------------ claims
Ran(stage) == stage \in stages

\* the text of the mapped price and date cells of row i, as uploaded
RawPrecio(i) == df.rows[i][IndexOf(df.cols, c.precio)]
RawFecha(i) == df.rows[i][IndexOf(df.cols, c.fecha)]

\* C1: a pass in which the product or the price mapping is "(ninguna)" stops
\* with the missing-mapping error before any canonical record is built: no
\* canonical record exists and no filter, KPI, aggregate, rollup or export
\* stage has run.
C1_MissingMappingHalts ==
    (Ran("mapping") /\ (c.producto = NINGUNA \/ c.precio = NINGUNA)) =>
        /\ status = "missing_mapping"
        /\ ndf = EmptyNdf
        /\ stages = {"load", "mapping"}
        /\ df_f = <<>> /\ agg = <<>> /\ agg_top = <<>> /\ by_day = <<>>

\* the product column is mapped and the price column is not, and the pass
\* has stopped after the mapping
C1_Witness ==
    /\ status = "missing_mapping"
    /\ c.producto # NINGUNA
    /\ c.precio = NINGUNA
    /\ Len(df.rows) > 0

\* C2 as stated: a cell that fails to parse becomes missing alone; the date
\* column is coerced cell by cell, every record is kept and the pass runs to
\* its end.
C2_CellFailureIsLocal ==
    (Ran("canonical") /\ c.fecha # NINGUNA) =>
        /\ status = "done"
        /\ Len(ndf.rows) = Len(df.rows)
        /\ ndf.fecha_parsed
        /\ \A i \in 1..Len(ndf.rows) :
              ndf.rows[i].fecha =
                  (IF RawFecha(i) # NULL /\ IsDateText(RawFecha(i))
                   THEN Ts(DateVal(RawFecha(i))) ELSE NaT)

\* C3 as stated: a record whose product is missing is in the filtered set and
\* is counted in a group of its own, whatever the product selection.
C3_NullProductKept ==
    Ran("aggregate") =>
        \A i \in 1..Len(ndf.rows) :
            ndf.rows[i].producto = NULL =>
                /\ \E j \in 1..Len(df_f) : df_f[j].idx = ndf.rows[i].idx
                /\ \E g \in 1..Len(agg) : agg[g].producto = NULL

\* C4 as stated: under a range (start, end) the records kept are exactly the
\* product-filtered records dated in [start, end + 1 day).
C4_HalfOpenRange ==
    (Ran("kpi") /\ Len(date_range) = 2) =>
        \A i \in 1..Len(ndf.rows) :
            (AsStr(ndf.rows[i].producto) \in prod_sel \/ prod_sel = {}) =>
                ((\E j \in 1..Len(df_f) : df_f[j].idx = ndf.rows[i].idx)
                 <=> /\ ndf.rows[i].fecha.ok
                     /\ Midnight(date_range[1]) <= ndf.rows[i].fecha.v
                     /\ ndf.rows[i].fecha.v < Midnight(date_range[2]) + HoursPerDay)

\* the decimal value of a text with one comma, its periods grouping digits
CommaDecimalValue(s) ==
    LET k == IndexOf(s, ",")
        ip == Remove(SubSeq(s, 1, k - 1), ".")
        fp == SubSeq(s, k + 1, Len(s))
    IN DigitsVal(ip) * Pow10(FracDigits) + DigitsVal(fp) * Pow10(FracDigits - Len(fp))

\* digits and periods, one comma, digits: "1.234,56"
IsCommaDecimal(s) ==
    /\ Count(s, ",") = 1
    /\ \A i \in 1..Len(s) : IsDigit(s[i]) \/ s[i] \in {",", "."}
    /\ IndexOf(s, ",") > 1 /\ IsDigit(s[1])
    /\ IndexOf(s, ",") < Len(s)
    /\ Len(s) - IndexOf(s, ",") <= FracDigits
    /\ \A i \in (IndexOf(s, ",") + 1)..Len(s) : IsDigit(s[i])

\* C5 as stated: a text with more commas than periods is read with its comma
\* as the decimal point, whatever the other cells of the column hold.
C5_PerStringDecision ==
    Ran("canonical") =>
        \A i \in 1..Len(ndf.rows) :
            LET s == StripNonNumeric(AsStr(RawPrecio(i)))
            IN (Count(s, ",") > Count(s, ".") /\ IsCommaDecimal(s)) =>
                   ndf.rows[i].precio = Num(CommaDecimalValue(s))

\* r is what the candidate scan finds: the column, in its own spelling, that
\* matches the first candidate with any match (the last such column if
\* several differ only in case), or "(ninguna)" when no candidate matches
IsFirstMatch(cols, cands, r) ==
    \/ /\ r = NINGUNA
       /\ \A k \in 1..Len(cands) : \A i \in 1..Len(cols) : Lower(cols[i]) # cands[k]
    \/ \E k \in 1..Len(cands) : \E i \in 1..Len(cols) :
          /\ r = cols[i]
          /\ Lower(cols[i]) = cands[k]
          /\ \A k2 \in 1..(k - 1) : \A j \in 1..Len(cols) : Lower(cols[j]) # cands[k2]
          /\ \A j \in (i + 1)..Len(cols) : Lower(cols[j]) # cands[k]

\* the option the selectbox of field f shows before any choice
DefaultOption(w) == w.id[1][w.id[2]]

\* C6 as stated: a choice other than "(ninguna)" is the mapping; with no
\* choice, or with "(ninguna)" chosen, the candidate scan decides.
C6_SentinelFallsBack ==
    (Ran("mapping") /\ source = CSV) =>
        \A f \in Fields :
            IF w_pick[f].val # NINGUNA THEN c[f] = w_pick[f].val
            ELSE IsFirstMatch(df.cols, Candidates[f], c[f])

\* C6, amended: the value of the selectbox is the mapping, "(ninguna)"
\* included, which leaves the field unmapped; the selectbox starts at what
\* the candidate scan finds, and that is the mapping of the first pass over
\* an upload.
C6_PickResolution ==
    [][(Ran("mapping")' /\ source' = CSV) =>
          \A f \in Fields :
              /\ c'[f] = w_pick'[f].val
              /\ c'[f] \in Range(PickOptions(df'.cols))
              /\ IsFirstMatch(df'.cols, Candidates[f], DefaultOption(w_pick'[f]))
              /\ status = "init" => c'[f] = DefaultOption(w_pick'[f])]_vars

\* the product selectbox started at "Producto", found through the candidate
\* "producto", and "(ninguna)" was chosen in it; the price column was found
\* as "PRECIO"
C6_Witness ==
    /\ Ran("mapping") /\ source = CSV
    /\ DefaultOption(w_pick.producto) = <<"P", "r", "o", "d", "u", "c", "t", "o">>
    /\ c.producto = NINGUNA
    /\ c.precio = <<"P", "R", "E", "C", "I", "O">>

\* C7 as stated: every canonical record has an id, no two share one, and
\* without an id column the i-th record has id i.
C7_IdsDefinedAndUnique ==
    Ran("canonical") =>
        /\ \A i \in 1..Len(ndf.rows) : ndf.rows[i].id # NULL
        /\ \A i, j \in 1..Len(ndf.rows) : i # j => ndf.rows[i].id # ndf.rows[j].id
        /\ c.id = NINGUNA => \A i \in 1..Len(ndf.rows) : ndf.rows[i].id = Str(i)

\* the filtered records dated on day d
OnDay(d) == {j \in 1..Len(df_f) : df_f[j].fecha.ok /\ DateOf(df_f[j].fecha.v) = d}

\* C8 as stated: the rollup has one row for each calendar day on which a
\* filtered record is dated, days ascending; a row counts the records of its
\* day and totals their prices.
C8_DailyRollup ==
    (Ran("rollup") /\ ndf.fecha_parsed) =>
        /\ \A j \in 1..Len(df_f) :
              df_f[j].fecha.ok <=> \E g \in 1..Len(by_day) : by_day[g].day = DateOf(df_f[j].fecha.v)
        /\ \A g, h \in 1..Len(by_day) : g < h => by_day[g].day < by_day[h].day
        /\ \A g \in 1..Len(by_day) :
              /\ OnDay(by_day[g].day) # {}
              /\ by_day[g].ventas = Cardinality(OnDay(by_day[g].day))
              /\ by_day[g].facturado = SumPrecio(Keep(df_f, OnDay(by_day[g].day)))

\* the filtered records of product k
OfProduct(k) == {j \in 1..Len(df_f) : df_f[j].producto = k}

\* C9 as stated: a group's count is the number of its records, whatever
\* their ids and prices; its value is the sum of the prices, the mean of the
\* prices that are there, or that number of records.
C9_GroupCountAndValue ==
    Ran("aggregate") =>
        \A g \in 1..Len(agg) :
            /\ agg[g].n = Cardinality(OfProduct(agg[g].producto))
            /\ metric_choice = Suma =>
                  agg[g].valor = Val(SumPrecio(Keep(df_f, OfProduct(agg[g].producto))), 1)
            /\ metric_choice = Promedio =>
                  agg[g].valor = MeanPrecio(Keep(df_f, OfProduct(agg[g].producto)))
            /\ metric_choice = Conteo =>
                  agg[g].valor = Val(Cardinality(OfProduct(agg[g].producto)), 1)

=============================================================================
